---- MODULE Spec2Model ----
(***************************************************************************)
(* Model of the cycle orchestrator of main.py: the lifecycle controller    *)
(* (start_bot / stop_bot), the scheduler loop, run_cycle with its          *)
(* interlocks and pipeline, and the two file artifacts (bot_status.json    *)
(* and signal.json).                                                       *)
(*                                                                         *)
(* Controller threads are calls of main.start_bot; a presenter thread      *)
(* calls main.stop_bot.  Every blocking call of the source is one step.    *)
(* Collaborators (market data, context, selector, signal router, ML,       *)
(* feedback) are outside the repository's sources: each is a               *)
(* nondeterministic choice over the results its port can give.             *)
(***************************************************************************)
EXTENDS Integers, Sequences, FiniteSets, TLC

\* ------------------------------------------------------------------ bounds
MaxTime == 11      \* the clock stops advancing here

\* ------------------------------------------------------- program constants
loop_interval == 5          \* start_bot: loop_interval = 5
DefaultMinConfidence == 35  \* load_config defaults / CONFIG.get defaults
DefaultCooldown == 5
DefaultMaxDaily == 50
MlStatusEvery == 10         \* cycle_count % 10 == 0

\* The threads that may call start_bot.  Thread 2 exists only in SpecApi.
Threads == {1, 2}

\* ------------------------------------------------------------------ Config
\* A config is a record of the three keys run_cycle reads; NoKey marks a
\* key that is missing from the dict.
NoKey == -1
EmptyConfig == [min_confidence |-> NoKey, cooldown |-> NoKey, max_daily_trades |-> NoKey]
DefaultConfig ==
    [min_confidence |-> DefaultMinConfidence, cooldown |-> DefaultCooldown,
     max_daily_trades |-> DefaultMaxDaily]
FullConfig == [min_confidence |-> 75, cooldown |-> 10, max_daily_trades |-> 20]
\* A parsed dict that has none of the three keys (it has others, lot_size).
PartialConfig == [min_confidence |-> NoKey, cooldown |-> NoKey, max_daily_trades |-> NoKey]

\* What bot_config.json can hold: nothing, unparsable text, or a dict.
ConfigFiles ==
    { [state |-> "absent", dict |-> EmptyConfig],
      [state |-> "corrupt", dict |-> EmptyConfig],
      [state |-> "json", dict |-> FullConfig],
      [state |-> "json", dict |-> PartialConfig] }

\* What the adaptive collaborator leaves in bot_config.json when it reports
\* a change.
AdjustedConfigFiles == {f \in ConfigFiles : f.state = "json"}

\* load_config() without its fallback: what the file holds, as parsed.
load_config_NoDefaults(file) == file.dict

\* load_config(): the parsed dict, or the defaults when the file is absent
\* or cannot be parsed.
load_config(file) ==
    IF file.state = "json" THEN file.dict ELSE DefaultConfig

\* dict.get(key, default)
Get(value, default) == IF value = NoKey THEN default ELSE value

\* ---------------------------------------------------------------- artifacts
\* signal.json: the fields of a Signal that the orchestrator reads or writes.
\* id is 0 in a file left by an earlier process and 1 in a file written by
\* this one; bot_status.json is modelled by its running field.
NoSignalFile == [action |-> "ABSENT", confidence |-> 0, setup_name |-> "", id |-> 0]
StaleSignal == [action |-> "BUY", confidence |-> 75, setup_name |-> "S", id |-> 0]
StopSignal == [action |-> "NONE", confidence |-> 0, setup_name |-> "SYSTEM_STOP", id |-> 1]
NoStatusFile == [content |-> "absent", running |-> FALSE]
StatusJson(running) == [content |-> "json", running |-> running]
\* bot_status.json truncated to no bytes, and holding bytes that do not parse.
EmptyStatus == [content |-> "empty", running |-> FALSE]
GarbledStatus == [content |-> "garbled", running |-> FALSE]

\* ------------------------------------------------------------------- state
VARIABLES
    RUNNING, CONFIG, last_trade_time, consecutive_losses, paused_until,
    cycle_count,        \* the module globals of main.py
    ML_AVAILABLE,       \* set once at import
    imported,           \* the required imports of lines 71-78 resolved
    configFile,         \* bot_config.json
    signalFile,         \* signal.json
    statusFile,         \* bot_status.json
    now,                \* time.time()
    pc,                 \* position of each controller thread
    cyc,                \* per thread: what its current cycle read and did
    run,                \* per thread: facts about its current start_bot call
    stopPc,             \* position of the presenter inside stop_bot
    gui                 \* the dashboard: bot_state, running_thread, timers

vars == <<RUNNING, CONFIG, last_trade_time, consecutive_losses, paused_until,
          cycle_count, ML_AVAILABLE, imported, configFile, signalFile, statusFile, now,
          pc, cyc, run, stopPc, gui>>

imports == <<ML_AVAILABLE, imported>>
globals == <<RUNNING, CONFIG, last_trade_time, consecutive_losses, paused_until, cycle_count>>
files == <<configFile, signalFile, statusFile>>

StartPcs == {"s_run", "s_dump", "s_reset", "s_clear"}
CyclePcs == {"c_begin", "c_guard", "c_pipe", "c_eval", "c_emit", "c_end"}
LoopPcs == {"loop", "hb", "hb_dump", "sleep"} \cup CyclePcs
ExitPcs == {"x_status", "x_dump", "x_clear", "x_stop"}
RestPcs == {"idle", "done", "crashed"}

\* The record a cycle keeps of itself; FreshCycle is its value when no cycle
\* has begun.
FreshCycle ==
    [ calls |-> <<>>,            \* collaborators invoked, in order
      current_time |-> 0,        \* current_time = time.time()
      pre |-> [last_trade_time |-> 0, consecutive_losses |-> 0, paused_until |-> 0,
               cycle_count |-> 0, signalFile |-> NoSignalFile,
               CONFIG |-> EmptyConfig],          \* the state at entry
      seen |-> [paused_until |-> 0, last_trade_time |-> 0,
                CONFIG |-> EmptyConfig],         \* what the interlocks read
      adjust |-> "na",           \* result of ml_auto_adjust
      total_trades |-> -1,       \* stats["total_trades"], -1 when not asked
      context |-> "na",          \* the context in hand, from select_setup's
                                 \* strategy until evaluate_signal takes it
      setup |-> "na",            \* result of select_setup
      action |-> "na",           \* signal["action"], or none / raise
      confidence |-> 0,          \* signal["confidence"] in hundredths
      min_conf |-> -1,           \* CONFIG min_confidence at the gate
      exists |-> "na",           \* os.path.exists(SIGNAL_FILE_PATH) at the check
      assigned |-> -1,           \* what this cycle assigned to last_trade_time
      outcome |-> "none" ]       \* how the cycle ended

FreshRun ==
    [ late |-> FALSE,        \* another loop was running when start_bot was called
      cycled |-> FALSE,      \* a cycle of this call has begun
      evaluated |-> FALSE,   \* evaluate_signal was called in this call
      wake |-> 0,            \* when the current time.sleep ends
      halt |-> "no" ]        \* "stopped": stop_bot has set RUNNING = False
                             \* while this loop ran, and no start_bot has set
                             \* it back; "extra": a cycle has begun since;
                             \* "more": a second one has

InitFiles ==
    /\ configFile \in ConfigFiles
    /\ signalFile \in {NoSignalFile, StaleSignal}
    /\ statusFile = NoStatusFile

\* The dashboard after TradingBotGUI.__init__ (bot_gui_professional.py lines
\* 62-63): no controller thread, bot_state "STOPPED"; after counts the
\* root.after(2000, self.start_bot) timers not fired yet, and call says which
\* of its methods is inside main.stop_bot().
FreshGui ==
    [bot_state |-> "STOPPED", running_thread |-> 0, after |-> 0, call |-> "none"]

\* The module right after import: lines 141-146.
Init ==
    /\ RUNNING = FALSE
    /\ CONFIG = EmptyConfig
    /\ last_trade_time = 0
    /\ consecutive_losses = 0
    /\ paused_until = 0
    /\ cycle_count = 0
    /\ ML_AVAILABLE \in BOOLEAN
    /\ imported \in BOOLEAN
    /\ InitFiles
    /\ now = 1          \* time.time() is positive
    /\ pc = [t \in Threads |-> IF t = 1 THEN "idle" ELSE "off"]
    /\ cyc = [t \in Threads |-> FreshCycle]
    /\ run = [t \in Threads |-> FreshRun]
    /\ stopPc = "idle"
    /\ gui = FreshGui

\* The controller used through its two entry points from two threads at
\* once: start_bot has a second concurrent caller.
InitApi ==
    /\ RUNNING = FALSE
    /\ CONFIG = EmptyConfig
    /\ last_trade_time = 0
    /\ consecutive_losses = 0
    /\ paused_until = 0
    /\ cycle_count = 0
    /\ ML_AVAILABLE = FALSE
    /\ imported = TRUE
    /\ configFile \in {f \in ConfigFiles : f.dict = FullConfig}
    /\ signalFile = NoSignalFile
    /\ statusFile = NoStatusFile
    /\ now = MaxTime - loop_interval
    /\ pc = [t \in Threads |-> "idle"]
    /\ cyc = [t \in Threads |-> FreshCycle]
    /\ run = [t \in Threads |-> FreshRun]
    /\ stopPc = "idle"
    /\ gui = FreshGui

\* run_cycle applied to a CycleState drawn from its declared domain: the
\* loop is running (thread 1 is at line 362) and paused_until,
\* consecutive_losses and cycle_count hold values that no statement of main.py
\* assigns, as a caller that sets the module globals would leave them.
HarnessPausedUntil == 6
InitCycle ==
    /\ RUNNING = TRUE
    /\ configFile \in ConfigFiles
    /\ CONFIG = load_config(configFile)
    /\ last_trade_time = 0
    /\ consecutive_losses = 1
    /\ paused_until \in {0, HarnessPausedUntil}
    /\ cycle_count = MlStatusEvery - 1
    /\ ML_AVAILABLE \in BOOLEAN
    /\ imported = TRUE
    /\ signalFile = NoSignalFile
    /\ statusFile = StatusJson(TRUE)
    /\ now = 1
    /\ pc = [t \in Threads |-> IF t = 1 THEN "loop" ELSE "off"]
    /\ cyc = [t \in Threads |-> FreshCycle]
    /\ run = [t \in Threads |-> FreshRun]
    /\ stopPc = "idle"
    /\ gui = FreshGui

Goto(t, p) == pc' = [pc EXCEPT ![t] = p]

\* The import failure logged, and the module left to go on without sys.exit.
ModuleLoaded_NoExit(resolved) == TRUE

\* lines 71-78: the three required imports, gui; when one fails the module calls
\* sys.exit(1) and none of its functions exists for any caller.
ModuleLoaded(resolved) == resolved
LoopRunning(t) == \E u \in Threads \ {t} : pc[u] \in LoopPcs

\* ------------------------------------------------------ interlocks and gate
\* The comparison of the pause window reversed.
Paused_Reversed(pu, ct) == pu < ct

\* line 216: paused_until > current_time
Paused(pu, ct) == pu > ct

\* The cooldown read under a key the config never has: always the default.
InCooldown_DefaultOnly(ltt, ct, cfg) ==
    ltt > 0 /\ (ct - ltt) < DefaultCooldown

\* lines 221-224: last_trade_time > 0 and current_time - last_trade_time < cooldown
InCooldown(ltt, ct, cfg) ==
    ltt > 0 /\ (ct - ltt) < Get(cfg.cooldown, DefaultCooldown)

\* The daily cap with > for >=.
Capped_Strict(tt, cfg) == tt > Get(cfg.max_daily_trades, DefaultMaxDaily)

\* lines 228-230: stats["total_trades"] >= max_daily
Capped(tt, cfg) == tt >= Get(cfg.max_daily_trades, DefaultMaxDaily)

\* The confidence gate with <= for <: equality is rejected.
BelowGate_Inclusive(confidence, cfg) ==
    confidence <= Get(cfg.min_confidence, DefaultMinConfidence)

\* lines 299-302: confidence < min_confidence / 100.0, both in hundredths
BelowGate(confidence, cfg) ==
    confidence < Get(cfg.min_confidence, DefaultMinConfidence)

\* ------------------------------------------------------------- file writes
\* write_bot_status(running), lines 28-38, is two steps on the file itself.
\* lines 33-34: os.makedirs and open(BOT_STATUS_FILE, "w"), which truncates
\* the file in place.
open_status == statusFile' = EmptyStatus

\* The bytes of the JSON for running go to offset 0 of whatever the file
\* holds; "false" makes the text one byte longer than "true", so a shorter
\* text written over a longer one leaves the last byte of the longer one.
LeavesTail(file, running) ==
    /\ running
    /\ file.content \in {"json", "garbled"}
    /\ file # StatusJson(TRUE)

\* lines 35-38: json.dump into the buffer, f.flush() (the one write of the
\* bytes), os.fsync, os.utime.
dump_status(running) ==
    statusFile' = IF LeavesTail(statusFile, running) THEN GarbledStatus
                  ELSE StatusJson(running)

\* One call site of write_bot_status in a controller thread: the open at
\* position from, the dump at position mid; an exception of either leaves
\* start_bot, no call site being inside a try that catches it.
OpenStatus(t, from, mid) ==
    /\ pc[t] = from
    /\ \/ open_status /\ Goto(t, mid)
       \/ UNCHANGED statusFile /\ Goto(t, "crashed")

DumpStatus(t, mid, to, running) ==
    /\ pc[t] = mid
    /\ \/ dump_status(running) /\ Goto(t, to)
       \/ UNCHANGED statusFile /\ Goto(t, "crashed")

\* clear_signal_file(), lines 150-159: nothing to do when the file is absent;
\* otherwise os.remove, whose failure is logged and swallowed.
clear_signal_file ==
    IF signalFile = NoSignalFile
    THEN signalFile' = signalFile
    ELSE \E removed \in BOOLEAN :
            signalFile' = IF removed THEN NoSignalFile ELSE signalFile

\* create_stop_signal(), lines 161-185: writes the sentinel; a failure is
\* logged and swallowed.
create_stop_signal ==
    \E written \in BOOLEAN :
        signalFile' = IF written THEN StopSignal ELSE signalFile

\* ----------------------------------------------------------------- clock
\* Time passes; the clock is read at the granularity of the loop interval.
Tick ==
    /\ now + loop_interval <= MaxTime
    /\ now' = now + loop_interval
    /\ UNCHANGED <<globals, imports, gui, files, pc, cyc, run, stopPc>>

\* -------------------------------------------------------------- start_bot
\* A caller enters start_bot: line 325, CONFIG = load_config().
StartCall(t) ==
    /\ ModuleLoaded(imported)
    /\ pc[t] \in RestPcs
    /\ CONFIG' = load_config(configFile)
    /\ run' = [run EXCEPT ![t] = [FreshRun EXCEPT !.late = LoopRunning(t)]]
    /\ cyc' = [cyc EXCEPT ![t] = FreshCycle]
    /\ Goto(t, "s_run")
    /\ UNCHANGED <<RUNNING, last_trade_time, consecutive_losses, paused_until,
                   cycle_count, imports, gui, files, now, stopPc>>

\* lines 327-328: RUNNING = True; write_bot_status(True), whose exception
\* leaves start_bot.
SetRunning(t) ==
    /\ RUNNING' = TRUE
    /\ OpenStatus(t, "s_run", "s_dump")
    /\ run' = [u \in Threads |-> [run[u] EXCEPT !.halt = "no"]]
    /\ UNCHANGED <<CONFIG, last_trade_time, consecutive_losses, paused_until,
                   cycle_count, imports, gui, configFile, signalFile, now, cyc,
                   stopPc>>

\* line 328, the rest of write_bot_status(True).
StartDump(t) ==
    /\ DumpStatus(t, "s_dump", "s_reset", TRUE)
    /\ UNCHANGED <<globals, imports, gui, configFile, signalFile, now, cyc, run,
                   stopPc>>

\* lines 329-331: the globals start_bot resets;
\* lines 337-342: get_ml_status() outside any try.
ResetState(t) ==
    /\ pc[t] = "s_reset"
    /\ paused_until' = 0
    /\ consecutive_losses' = 0
    /\ cycle_count' = 0
    /\ \/ Goto(t, "s_clear")
       \/ ML_AVAILABLE /\ Goto(t, "crashed")
    /\ UNCHANGED <<RUNNING, CONFIG, last_trade_time, imports, gui, files, now,
                   cyc, run, stopPc>>

\* lines 350-358: clear_signal_file(), its result ignored.
ClearAtStart(t) ==
    /\ pc[t] = "s_clear"
    /\ clear_signal_file
    /\ Goto(t, "loop")
    /\ UNCHANGED <<globals, imports, gui, configFile, statusFile, now, cyc, run,
                   stopPc>>

\* The loop test that never looks at the flag: while True.
LoopTest_IgnoresFlag(t) ==
    /\ pc[t] = "loop"
    /\ Goto(t, "hb")
    /\ UNCHANGED <<globals, imports, gui, files, now, cyc, run, stopPc>>

\* The loop with no heartbeat: run_cycle() is the first statement of the
\* body.
LoopTest_SkipsHeartbeat(t) ==
    /\ pc[t] = "loop"
    /\ Goto(t, IF RUNNING THEN "c_begin" ELSE "x_status")
    /\ UNCHANGED <<globals, imports, gui, files, now, cyc, run, stopPc>>

\* line 362: while RUNNING
LoopTest(t) ==
    /\ pc[t] = "loop"
    /\ Goto(t, IF RUNNING THEN "hb" ELSE "x_status")
    /\ UNCHANGED <<globals, imports, gui, files, now, cyc, run, stopPc>>

\* line 363: write_bot_status(True), before the try.
Heartbeat(t) ==
    /\ OpenStatus(t, "hb", "hb_dump")
    /\ UNCHANGED <<globals, imports, gui, configFile, signalFile, now, cyc, run,
                   stopPc>>

\* line 363, the rest of write_bot_status(True).
HeartbeatDump(t) ==
    /\ DumpStatus(t, "hb_dump", "c_begin", TRUE)
    /\ UNCHANGED <<globals, imports, gui, configFile, signalFile, now, cyc, run,
                   stopPc>>

\* The handler of the loop counting a cycle that raised as a loss.
Return_CountsLoss(t) ==
    /\ pc[t] = "c_end"
    /\ consecutive_losses' =
          IF cyc[t].outcome = "exception" THEN 1 ELSE consecutive_losses
    /\ cyc' = [cyc EXCEPT ![t] = FreshCycle]
    /\ run' = [run EXCEPT ![t].wake = now + loop_interval]
    /\ Goto(t, "sleep")
    /\ UNCHANGED <<RUNNING, CONFIG, last_trade_time, paused_until, cycle_count,
                   imports, gui, files, now, stopPc>>

\* lines 365-366 and 370-374: back in the loop after run_cycle, the thread
\* goes to sleep; the record of the cycle ends with the cycle.
Return(t) ==
    /\ pc[t] = "c_end"
    /\ cyc' = [cyc EXCEPT ![t] = FreshCycle]
    /\ run' = [run EXCEPT ![t].wake = now + loop_interval]
    /\ Goto(t, "sleep")
    /\ UNCHANGED <<globals, imports, gui, files, now, stopPc>>

\* lines 366 and 374: time.sleep(5) has elapsed.
Wake(t) ==
    /\ pc[t] = "sleep"
    /\ now >= run[t].wake
    /\ Goto(t, "loop")
    /\ UNCHANGED <<globals, imports, gui, files, now, cyc, run, stopPc>>

\* line 376: write_bot_status(False)
ExitStatus(t) ==
    /\ OpenStatus(t, "x_status", "x_dump")
    /\ UNCHANGED <<globals, imports, gui, configFile, signalFile, now, cyc, run,
                   stopPc>>

\* line 376, the rest of write_bot_status(False).
ExitDump(t) ==
    /\ DumpStatus(t, "x_dump", "x_clear", FALSE)
    /\ UNCHANGED <<globals, imports, gui, configFile, signalFile, now, cyc, run,
                   stopPc>>

\* line 378: clear_signal_file()
ExitClear(t) ==
    /\ pc[t] = "x_clear"
    /\ clear_signal_file
    /\ Goto(t, "x_stop")
    /\ UNCHANGED <<globals, imports, gui, configFile, statusFile, now, cyc, run,
                   stopPc>>

\* line 379: create_stop_signal(); start_bot returns.
ExitStop(t) ==
    /\ pc[t] = "x_stop"
    /\ create_stop_signal
    /\ Goto(t, "done")
    /\ UNCHANGED <<globals, imports, gui, configFile, statusFile, now, cyc, run,
                   stopPc>>

\* --------------------------------------------------------------- stop_bot
\* stop_bot discarding the cycle counter as well.
StopCall_ResetsCycleCount ==
    /\ ModuleLoaded(imported)
    /\ stopPc = "idle"
    /\ RUNNING' = FALSE
    /\ cycle_count' = 0
    /\ stopPc' = "status"
    /\ run' = [u \in Threads |->
                IF pc[u] \in LoopPcs /\ run[u].halt = "no"
                THEN [run[u] EXCEPT !.halt = "stopped"] ELSE run[u]]
    /\ UNCHANGED <<CONFIG, last_trade_time, consecutive_losses, paused_until,
                   imports, gui, files, now, pc, cyc>>

\* line 384: RUNNING = False
StopCall ==
    /\ ModuleLoaded(imported)
    /\ stopPc = "idle"
    /\ RUNNING' = FALSE
    /\ stopPc' = "status"
    /\ run' = [u \in Threads |->
                IF pc[u] \in LoopPcs /\ run[u].halt = "no"
                THEN [run[u] EXCEPT !.halt = "stopped"] ELSE run[u]]
    /\ UNCHANGED <<CONFIG, last_trade_time, consecutive_losses, paused_until,
                   cycle_count, imports, gui, files, now, pc, cyc>>

\* line 385: write_bot_status(False) opens the file, or raises to the
\* caller of stop_bot.
StopStatus ==
    /\ stopPc = "status"
    /\ \/ open_status /\ stopPc' = "dump"
       \/ UNCHANGED statusFile /\ stopPc' = "idle"
    /\ UNCHANGED <<globals, imports, gui, configFile, signalFile, now, pc, cyc,
                   run>>

\* line 385, the rest of write_bot_status(False); stop_bot returns.
StopDump ==
    /\ stopPc = "dump"
    /\ \/ dump_status(FALSE)
       \/ UNCHANGED statusFile
    /\ stopPc' = "idle"
    /\ UNCHANGED <<globals, imports, gui, configFile, signalFile, now, pc, cyc,
                   run>>

\* -------------------------------------------------------------- run_cycle
TotalTradesValues == {0, 20, 50}     \* what get_overall_stats may report
Confidences == {35, 75}              \* signal confidences, in hundredths
Actions == {"BUY", "NONE"}           \* SELL is treated by the code as BUY is

Called(c, name) == [c EXCEPT !.calls = Append(@, name)]

\* run_cycle is over: it returns, or raises into the handler of the loop.
Finish(t, c, r, outcome) ==
    /\ cyc' = [cyc EXCEPT ![t] = [c EXCEPT !.outcome = outcome]]
    /\ run' = [run EXCEPT ![t] = r]
    /\ Goto(t, "c_end")

Continue(t, c, p) ==
    /\ cyc' = [cyc EXCEPT ![t] = c]
    /\ Goto(t, p)

\* lines 206-211: what process_feedback() may do: return a truth value or
\* raise. run_cycle logs on true and passes on an exception, so the three
\* lead to the same state.
FeedbackResults == {"true", "false", "raise"}

\* ml_auto_adjust() called outside its try: its exception leaves run_cycle
\* for the handler of the loop, and the cycle does nothing else.
CycleBegin_AdjustUncaught(t) ==
    /\ pc[t] = "c_begin"
    /\ cycle_count' = cycle_count + 1
    /\ LET c == [FreshCycle EXCEPT !.pre =
                    [last_trade_time |-> last_trade_time,
                     consecutive_losses |-> consecutive_losses,
                     paused_until |-> paused_until, cycle_count |-> cycle_count,
                     signalFile |-> signalFile, CONFIG |-> CONFIG]]
       IN  \/ /\ ML_AVAILABLE
              /\ \E file \in AdjustedConfigFiles :
                    /\ configFile' = file
                    /\ CONFIG' = load_config(file)
              /\ Continue(t, Called(Called([c EXCEPT !.adjust = "true"],
                            "ml_auto_adjust"), "process_feedback"), "c_guard")
           \/ /\ ML_AVAILABLE
              /\ Continue(t, Called(Called([c EXCEPT !.adjust = "false"],
                            "ml_auto_adjust"), "process_feedback"), "c_guard")
              /\ UNCHANGED <<configFile, CONFIG>>
           \/ /\ ML_AVAILABLE
              /\ Continue(t, [Called([c EXCEPT !.adjust = "raise"],
                            "ml_auto_adjust") EXCEPT !.outcome = "exception"],
                          "c_end")
              /\ UNCHANGED <<configFile, CONFIG>>
           \/ /\ ~ML_AVAILABLE
              /\ Continue(t, Called(c, "process_feedback"), "c_guard")
              /\ UNCHANGED <<configFile, CONFIG>>
    /\ run' = [run EXCEPT ![t].cycled = TRUE,
                          ![t].halt = IF @ = "no" THEN @
                                      ELSE IF @ = "stopped" THEN "extra"
                                      ELSE "more"]
    /\ UNCHANGED <<RUNNING, last_trade_time, consecutive_losses, paused_until,
                   imports, gui, signalFile, statusFile, now, stopPc>>

\* line 190: cycle_count += 1
\* lines 196-204: ml_auto_adjust(), and load_config() when it says the
\* config changed; an exception is swallowed.
\* lines 206-211: process_feedback(), any result or exception ignored.
CycleBegin(t) ==
    /\ pc[t] = "c_begin"
    /\ cycle_count' = cycle_count + 1
    /\ LET c == [FreshCycle EXCEPT !.pre =
                    [last_trade_time |-> last_trade_time,
                     consecutive_losses |-> consecutive_losses,
                     paused_until |-> paused_until, cycle_count |-> cycle_count,
                     signalFile |-> signalFile, CONFIG |-> CONFIG]]
           feedback(d) == \E res \in FeedbackResults :
                             Continue(t, Called(d, "process_feedback"), "c_guard")
       IN  \/ /\ ML_AVAILABLE
              /\ \E file \in AdjustedConfigFiles :
                    /\ configFile' = file
                    /\ CONFIG' = load_config(file)
              /\ feedback(Called([c EXCEPT !.adjust = "true"], "ml_auto_adjust"))
           \/ /\ ML_AVAILABLE
              /\ \E res \in {"false", "raise"} :
                    feedback(Called([c EXCEPT !.adjust = res], "ml_auto_adjust"))
              /\ UNCHANGED <<configFile, CONFIG>>
           \/ /\ ~ML_AVAILABLE
              /\ feedback(c)
              /\ UNCHANGED <<configFile, CONFIG>>
    /\ run' = [run EXCEPT ![t].cycled = TRUE,
                          ![t].halt = IF @ = "no" THEN @
                                      ELSE IF @ = "stopped" THEN "extra"
                                      ELSE "more"]
    /\ UNCHANGED <<RUNNING, last_trade_time, consecutive_losses, paused_until,
                   imports, gui, signalFile, statusFile, now, stopPc>>

\* get_overall_stats() called ahead of the pause and cooldown checks: the
\* stats are fetched in every cycle.
Interlocks_StatsFirst(t) ==
    /\ pc[t] = "c_guard"
    /\ LET c == [cyc[t] EXCEPT !.current_time = now,
                     !.seen = [paused_until |-> paused_until,
                               last_trade_time |-> last_trade_time,
                               CONFIG |-> CONFIG]]
           s == Called(c, "get_overall_stats")
       IN  IF Paused(paused_until, now)
           THEN Finish(t, s, run[t], "paused")
           ELSE IF InCooldown(last_trade_time, now, CONFIG)
           THEN Finish(t, s, run[t], "cooldown")
           ELSE \/ Finish(t, s, run[t], "exception")
                \/ \E tt \in TotalTradesValues :
                     LET d == [s EXCEPT !.total_trades = tt]
                     IN  IF Capped(tt, CONFIG)
                         THEN Finish(t, d, run[t], "cap")
                         ELSE IF ML_AVAILABLE /\ cycle_count % MlStatusEvery = 0
                         THEN \/ Continue(t, Called(d, "get_ml_status"), "c_pipe")
                                 /\ UNCHANGED run
                              \/ Finish(t, Called(d, "get_ml_status"), run[t], "exception")
                         ELSE Continue(t, d, "c_pipe") /\ UNCHANGED run
    /\ UNCHANGED <<globals, imports, gui, files, now, stopPc>>

\* The interlocks reading the Config the cycle began with: a reload made by
\* this cycle takes effect at the next one.
Interlocks_StaleConfig(t) ==
    /\ pc[t] = "c_guard"
    /\ LET c == [cyc[t] EXCEPT !.current_time = now,
                     !.seen = [paused_until |-> paused_until,
                               last_trade_time |-> last_trade_time,
                               CONFIG |-> cyc[t].pre.CONFIG]]
           s == Called(c, "get_overall_stats")
       IN  IF Paused(paused_until, now)
           THEN Finish(t, c, run[t], "paused")
           ELSE IF InCooldown(last_trade_time, now, cyc[t].pre.CONFIG)
           THEN Finish(t, c, run[t], "cooldown")
           ELSE \/ Finish(t, s, run[t], "exception")
                \/ \E tt \in TotalTradesValues :
                     LET d == [s EXCEPT !.total_trades = tt]
                     IN  IF Capped(tt, cyc[t].pre.CONFIG)
                         THEN Finish(t, d, run[t], "cap")
                         ELSE IF ML_AVAILABLE /\ cycle_count % MlStatusEvery = 0
                         THEN \/ Continue(t, Called(d, "get_ml_status"), "c_pipe")
                                 /\ UNCHANGED run
                              \/ Finish(t, Called(d, "get_ml_status"), run[t], "exception")
                         ELSE Continue(t, d, "c_pipe") /\ UNCHANGED run
    /\ UNCHANGED <<globals, imports, gui, files, now, stopPc>>

\* lines 214-226: current_time = time.time(), the pause window and the
\* cooldown;
\* lines 228-242: get_overall_stats() and the daily cap, then, every tenth
\* cycle, get_ml_status(); neither call is inside a try.
Interlocks(t) ==
    /\ pc[t] = "c_guard"
    /\ LET c == [cyc[t] EXCEPT !.current_time = now,
                     !.seen = [paused_until |-> paused_until,
                               last_trade_time |-> last_trade_time,
                               CONFIG |-> CONFIG]]
           s == Called(c, "get_overall_stats")
       IN  IF Paused(paused_until, now)
           THEN Finish(t, c, run[t], "paused")
           ELSE IF InCooldown(last_trade_time, now, CONFIG)
           THEN Finish(t, c, run[t], "cooldown")
           ELSE \/ Finish(t, s, run[t], "exception")
                \/ \E tt \in TotalTradesValues :
                     LET d == [s EXCEPT !.total_trades = tt]
                     IN  IF Capped(tt, CONFIG)
                         THEN Finish(t, d, run[t], "cap")
                         ELSE IF ML_AVAILABLE /\ cycle_count % MlStatusEvery = 0
                         THEN \/ Continue(t, Called(d, "get_ml_status"), "c_pipe")
                                 /\ UNCHANGED run
                              \/ Finish(t, Called(d, "get_ml_status"), run[t], "exception")
                         ELSE Continue(t, d, "c_pipe") /\ UNCHANGED run
    /\ UNCHANGED <<globals, imports, gui, files, now, stopPc>>

\* lines 260-263: what analyze_market_context() may return to a cycle that
\* goes on to select_setup: a context descriptor, or an empty dict, which the
\* log line of lines 261-262 formats without complaint.  (None makes that
\* line raise inside the try: it is one of the ways the stage raises.)
Contexts == {"descriptor", "empty"}

\* read_market_data() called outside its try: its exception leaves run_cycle
\* and, not being caught at the loop either, start_bot.
Pipeline_ReadUncaught(t) ==
    /\ pc[t] = "c_pipe"
    /\ LET r == Called(cyc[t], "read_market_data")
           a == Called(r, "analyze_market_context")
           s == Called(a, "select_setup")
       IN  \/ /\ cyc' = [cyc EXCEPT ![t] = [r EXCEPT !.outcome = "read_raised"]]
              /\ Goto(t, "crashed")
              /\ UNCHANGED run
           \/ Finish(t, r, run[t], "no_data")
           \/ Finish(t, a, run[t], "context_raised")
           \/ Finish(t, [s EXCEPT !.setup = "none"], run[t], "no_setup")
           \/ Finish(t, [s EXCEPT !.setup = "raise"], run[t], "select_raised")
           \/ \E ctx \in Contexts :
                 Continue(t, [s EXCEPT !.setup = "ok", !.context = ctx], "c_eval")
                 /\ UNCHANGED run
    /\ UNCHANGED <<globals, imports, gui, files, now, stopPc>>

\* lines 244-256: read_market_data(); an exception or an empty result ends
\* the cycle;
\* lines 258-266: analyze_market_context(market_data), whose result is not
\* tested;
\* lines 268-280: select_setup(context).
Pipeline(t) ==
    /\ pc[t] = "c_pipe"
    /\ LET r == Called(cyc[t], "read_market_data")
           a == Called(r, "analyze_market_context")
           s == Called(a, "select_setup")
       IN  \/ \E why \in {"read_raised", "no_data"} : Finish(t, r, run[t], why)
           \/ Finish(t, a, run[t], "context_raised")
           \/ Finish(t, [s EXCEPT !.setup = "none"], run[t], "no_setup")
           \/ Finish(t, [s EXCEPT !.setup = "raise"], run[t], "select_raised")
           \/ \E ctx \in Contexts :
                 Continue(t, [s EXCEPT !.setup = "ok", !.context = ctx], "c_eval")
                 /\ UNCHANGED run
    /\ UNCHANGED <<globals, imports, gui, files, now, stopPc>>

\* The evaluate-signal port: it returns a Signal or none, or raises, and it
\* writes signal.json itself when it produces a Signal; the write can fail,
\* which is why run_cycle looks for the file afterwards.
EvaluateResults ==
    {[kind |-> k, action |-> "na", confidence |-> 0, persisted |-> FALSE] :
        k \in {"none", "raise"}}
    \cup
    {[kind |-> "signal", action |-> a, confidence |-> cf, persisted |-> p] :
        a \in Actions, cf \in Confidences, p \in BOOLEAN}

PersistedSignal(res) ==
    [action |-> res.action, confidence |-> res.confidence, setup_name |-> "S",
     id |-> 1]

\* last_trade_time = current_time moved ahead of evaluate_signal: the
\* assignment is made even when the stage raises.
Evaluate_StampsFirst(t) ==
    /\ pc[t] = "c_eval"
    /\ \E res \in EvaluateResults :
         LET c == [Called(cyc[t], "evaluate_signal") EXCEPT
                      !.context = "na",
                      !.action = IF res.kind = "signal" THEN res.action ELSE res.kind,
                      !.confidence = res.confidence,
                      !.min_conf = Get(CONFIG.min_confidence, DefaultMinConfidence)]
             r == [run[t] EXCEPT !.evaluated = TRUE]
         IN  /\ signalFile' = IF res.persisted THEN PersistedSignal(res) ELSE signalFile
             /\ IF res.kind = "raise" THEN Finish(t, c, r, "evaluate_raised")
                ELSE IF res.kind = "none" THEN Finish(t, c, r, "no_signal")
                ELSE IF res.action = "NONE" THEN Finish(t, c, r, "action_none")
                ELSE IF BelowGate(res.confidence, CONFIG) THEN Finish(t, c, r, "rejected")
                ELSE Continue(t, c, "c_emit") /\ run' = [run EXCEPT ![t] = r]
    /\ last_trade_time' = cyc[t].current_time
    /\ UNCHANGED <<RUNNING, CONFIG, consecutive_losses, paused_until, cycle_count,
                   imports, gui, configFile, statusFile, now, stopPc>>

\* lines 282-304: evaluate_signal(...), then the checks on its result: None,
\* action NONE, and the confidence gate.
Evaluate(t) ==
    /\ pc[t] = "c_eval"
    /\ \E res \in EvaluateResults :
         LET c == [Called(cyc[t], "evaluate_signal") EXCEPT
                      !.context = "na",
                      !.action = IF res.kind = "signal" THEN res.action ELSE res.kind,
                      !.confidence = res.confidence,
                      !.min_conf = Get(CONFIG.min_confidence, DefaultMinConfidence)]
             r == [run[t] EXCEPT !.evaluated = TRUE]
         IN  /\ signalFile' = IF res.persisted THEN PersistedSignal(res) ELSE signalFile
             /\ IF res.kind = "raise" THEN Finish(t, c, r, "evaluate_raised")
                ELSE IF res.kind = "none" THEN Finish(t, c, r, "no_signal")
                ELSE IF res.action = "NONE" THEN Finish(t, c, r, "action_none")
                ELSE IF BelowGate(res.confidence, CONFIG) THEN Finish(t, c, r, "rejected")
                ELSE Continue(t, c, "c_emit") /\ run' = [run EXCEPT ![t] = r]
    /\ UNCHANGED <<globals, imports, gui, configFile, statusFile, now, stopPc>>

\* The emission step looking at RUNNING first: a cycle in flight when
\* stop_bot is called gives up before it assigns last_trade_time.
Emit_AbortsWhenStopped(t) ==
    /\ pc[t] = "c_emit"
    /\ IF RUNNING
       THEN /\ last_trade_time' = cyc[t].current_time
            /\ Finish(t, [cyc[t] EXCEPT !.exists = IF signalFile = NoSignalFile THEN "no" ELSE "yes",
                                        !.assigned = last_trade_time'],
                      run[t], "emitted")
       ELSE /\ UNCHANGED last_trade_time
            /\ Finish(t, cyc[t], run[t], "cancelled")
    /\ UNCHANGED <<RUNNING, CONFIG, consecutive_losses, paused_until, cycle_count,
                   imports, gui, files, now, stopPc>>

\* lines 306-320: the signal is logged, signal.json is looked for, and
\* last_trade_time = current_time.
Emit(t) ==
    /\ pc[t] = "c_emit"
    /\ last_trade_time' = cyc[t].current_time
    /\ Finish(t, [cyc[t] EXCEPT !.exists = IF signalFile = NoSignalFile THEN "no" ELSE "yes",
                                !.assigned = last_trade_time'],
              run[t], "emitted")
    /\ UNCHANGED <<RUNNING, CONFIG, consecutive_losses, paused_until, cycle_count,
                   imports, gui, files, now, stopPc>>

\* ------------------------------------------------------------ the program
Start(t) ==
    \/ StartCall(t) \/ SetRunning(t) \/ StartDump(t) \/ ResetState(t)
    \/ ClearAtStart(t)

Loop(t) ==
    \/ LoopTest(t) \/ Heartbeat(t) \/ HeartbeatDump(t) \/ Return(t) \/ Wake(t)
    \/ ExitStatus(t) \/ ExitDump(t) \/ ExitClear(t) \/ ExitStop(t)

Cycle(t) ==
    \/ CycleBegin(t) \/ Interlocks(t) \/ Pipeline(t) \/ Evaluate(t) \/ Emit(t)

Next ==
    \/ Tick
    \/ StopCall
    \/ StopStatus
    \/ StopDump
    \/ \E t \in Threads : Start(t) \/ Loop(t) \/ Cycle(t)

\* ---------------------------------------------------------- specifications
\* One caller of start_bot at a time, as the dashboard uses it: a thread is
\* started only when the previous one is no longer alive, and the Stop button
\* calls stop_bot.
Spec == Init /\ [][Next]_vars

\* start_bot called from two threads and stop_bot by nobody: the steps of
\* start_bot up to and inside the loop.
NextApi ==
    \/ Tick
    \/ \E t \in Threads :
          \/ Start(t)
          \/ LoopTest(t) \/ Heartbeat(t) \/ HeartbeatDump(t) \/ Return(t) \/ Wake(t)
          \/ Cycle(t)

SpecApi == InitApi /\ [][NextApi]_vars

\* run_cycle on a drawn CycleState: the loop of a start_bot that is already
\* past its startup, with no caller of start_bot or stop_bot.
NextCycle ==
    \/ Tick
    \/ \E t \in Threads :
          \/ LoopTest(t) \/ Heartbeat(t) \/ HeartbeatDump(t) \/ Return(t) \/ Wake(t)
          \/ Cycle(t)

SpecCycle == InitCycle /\ [][NextCycle]_vars

\* ------------------------------------------------------------ the dashboard
\* bot_gui_professional.py, lines 1146-1179.  The methods of TradingBotGUI run
\* on the Tk thread, one at a time; main.start_bot runs on the thread they
\* spawn, main.stop_bot on the Tk thread itself.
MaxPending == 1     \* root.after timers waiting at once

\* threading.Thread.is_alive() of the thread in slot t.
Alive(t) == pc[t] \notin RestPcs \cup {"off"}

\* TradingBotGUI.start_bot that spawns without looking at running_thread.
gui_start_bot_NoAliveCheck(g) ==
    \E t \in Threads :
        /\ pc[t] \in RestPcs
        /\ gui' = [g EXCEPT !.bot_state = "RUNNING", !.running_thread = t]
        /\ CONFIG' = load_config(configFile)
        /\ run' = [run EXCEPT ![t] = [FreshRun EXCEPT !.late = LoopRunning(t)]]
        /\ cyc' = [cyc EXCEPT ![t] = FreshCycle]
        /\ Goto(t, "s_run")
        /\ UNCHANGED <<RUNNING, last_trade_time, consecutive_losses, paused_until,
                       cycle_count, imports, files, now, stopPc>>

\* lines 1146-1160, TradingBotGUI.start_bot: nothing when the thread it
\* spawned last is alive; otherwise bot_state = "RUNNING" and a new thread
\* is started on main.start_bot, whose first statement is line 325 of
\* main.py.  g is the dashboard's state as the caller leaves it.
gui_start_bot(g) ==
    IF g.running_thread # 0 /\ Alive(g.running_thread)
    THEN /\ gui' = g
         /\ UNCHANGED <<globals, imports, files, now, pc, cyc, run, stopPc>>
    ELSE \E t \in Threads :
            /\ pc[t] \in RestPcs
            /\ gui' = [g EXCEPT !.bot_state = "RUNNING", !.running_thread = t]
            /\ CONFIG' = load_config(configFile)
            /\ run' = [run EXCEPT ![t] = [FreshRun EXCEPT !.late = LoopRunning(t)]]
            /\ cyc' = [cyc EXCEPT ![t] = FreshCycle]
            /\ Goto(t, "s_run")
            /\ UNCHANGED <<RUNNING, last_trade_time, consecutive_losses, paused_until,
                           cycle_count, imports, files, now, stopPc>>

\* lines 1162-1165, TradingBotGUI.stop_bot up to line 384 of main.stop_bot:
\* RUNNING = False.  kind says whether restart_bot is the caller.
gui_stop_bot(kind) ==
    /\ stopPc = "idle"
    /\ RUNNING' = FALSE
    /\ stopPc' = "status"
    /\ run' = [u \in Threads |->
                IF pc[u] \in LoopPcs /\ run[u].halt = "no"
                THEN [run[u] EXCEPT !.halt = "stopped"] ELSE run[u]]
    /\ gui' = [gui EXCEPT !.call = kind]
    /\ UNCHANGED <<CONFIG, last_trade_time, consecutive_losses, paused_until,
                   cycle_count, imports, files, now, pc, cyc>>

\* The Start button, or any call of TradingBotGUI.start_bot.
GuiStart ==
    /\ gui.call = "none"
    /\ gui_start_bot(gui)

\* The Stop button, or any call of TradingBotGUI.stop_bot.
GuiStop ==
    /\ gui.call = "none"
    /\ gui_stop_bot("stop")

\* lines 1173-1179, TradingBotGUI.restart_bot: stop_bot and a deferred
\* start_bot when bot_state is "RUNNING", start_bot otherwise.
GuiRestart ==
    /\ gui.call = "none"
    /\ IF gui.bot_state = "RUNNING"
       THEN gui.after < MaxPending /\ gui_stop_bot("restart")
       ELSE gui_start_bot(gui)

\* line 385 of main.py under the dashboard's call: the status file is opened,
\* or the exception leaves stop_bot and the method that called it, before
\* bot_state is assigned and before root.after is reached.
GuiStopStatus ==
    /\ gui.call # "none"
    /\ stopPc = "status"
    /\ \/ open_status /\ stopPc' = "dump" /\ UNCHANGED gui
       \/ UNCHANGED statusFile /\ stopPc' = "idle"
          /\ gui' = [gui EXCEPT !.call = "none"]
    /\ UNCHANGED <<globals, imports, configFile, signalFile, now, pc, cyc, run>>

\* line 385, the rest of the write; then lines 1167-1171, bot_state =
\* "STOPPED", and for restart_bot line 1177, root.after(2000, self.start_bot).
GuiStopDump ==
    /\ gui.call # "none"
    /\ stopPc = "dump"
    /\ \/ /\ dump_status(FALSE)
          /\ gui' = [gui EXCEPT !.call = "none", !.bot_state = "STOPPED",
                                !.after = IF gui.call = "restart" THEN @ + 1 ELSE @]
       \/ /\ UNCHANGED statusFile
          /\ gui' = [gui EXCEPT !.call = "none"]
    /\ stopPc' = "idle"
    /\ UNCHANGED <<globals, imports, configFile, signalFile, now, pc, cyc, run>>

\* The timer of line 1177 fires: TradingBotGUI.start_bot is called.
GuiAfter ==
    /\ gui.call = "none"
    /\ gui.after > 0
    /\ gui_start_bot([gui EXCEPT !.after = @ - 1])

\* The dashboard in use: thread slots are free until it spawns a thread.
InitGui ==
    /\ RUNNING = FALSE
    /\ CONFIG = EmptyConfig
    /\ last_trade_time = 0
    /\ consecutive_losses = 0
    /\ paused_until = 0
    /\ cycle_count = 0
    /\ ML_AVAILABLE = FALSE
    /\ imported = TRUE
    /\ configFile \in {f \in ConfigFiles : f.dict = FullConfig}
    /\ signalFile = NoSignalFile
    /\ statusFile = NoStatusFile
    /\ now = MaxTime - loop_interval
    /\ pc = [t \in Threads |-> "idle"]
    /\ cyc = [t \in Threads |-> FreshCycle]
    /\ run = [t \in Threads |-> FreshRun]
    /\ stopPc = "idle"
    /\ gui = FreshGui

\* The steps of the controller threads, all but the entry into start_bot,
\* which is the dashboard's.
NextGui ==
    \/ Tick
    \/ GuiStart \/ GuiStop \/ GuiRestart \/ GuiStopStatus \/ GuiStopDump
    \/ GuiAfter
    \/ \E t \in Threads :
          \/ SetRunning(t) \/ StartDump(t) \/ ResetState(t) \/ ClearAtStart(t)
          \/ Loop(t) \/ Cycle(t)

SpecGui == InitGui /\ [][NextGui]_vars

\* ------------------------------------------------------------------ claims
Range(f) == {f[i] : i \in DOMAIN f}
PipelineCalls ==
    {"read_market_data", "analyze_market_context", "select_setup", "evaluate_signal"}
GatedCalls == PipelineCalls \cup {"get_overall_stats", "get_ml_status"}

\* What the interlocks of a cycle had to decide on, from what the cycle read.
SawPaused(c) == c.current_time < c.seen.paused_until
SawCooldown(c) ==
    /\ c.seen.last_trade_time > 0
    /\ c.current_time - c.seen.last_trade_time <
          (IF c.seen.CONFIG.cooldown = NoKey THEN 5 ELSE c.seen.CONFIG.cooldown)
SawCap(c) ==
    /\ c.total_trades >= 0
    /\ c.total_trades >=
          (IF c.seen.CONFIG.max_daily_trades = NoKey THEN 50
           ELSE c.seen.CONFIG.max_daily_trades)

\* C1: a cycle reaches the emission step (and sets last_trade_time to its
\* timestamp) exactly when the three interlocks passed, select_setup returned
\* a strategy, evaluate_signal returned a signal whose action is not NONE and
\* whose confidence is at least min_confidence (equality passes).
C1_EmissionIff ==
    \A t \in Threads :
        pc[t] = "c_end" =>
            LET c == cyc[t]
                emitted == /\ c.outcome = "emitted"
                           /\ c.assigned = c.current_time
                qualifies == /\ ~SawPaused(c)
                             /\ ~SawCooldown(c)
                             /\ c.total_trades >= 0
                             /\ ~SawCap(c)
                             /\ c.setup = "ok"
                             /\ c.action \in {"BUY", "SELL"}
                             /\ c.confidence >= c.min_conf
            IN  /\ emitted <=> qualifies
                /\ ~emitted => c.assigned = -1

\* C1 witness: a cycle emitted with confidence equal to min_confidence.
C1_Witness ==
    \E t \in Threads :
        /\ pc[t] = "c_end"
        /\ cyc[t].outcome = "emitted"
        /\ cyc[t].confidence = cyc[t].min_conf
        /\ cyc[t].min_conf = 75

\* C2: when evaluate_signal returned a signal whose confidence is below
\* min_confidence, signal.json after the cycle is what it was before the cycle.
C2_RejectedLeavesArtifact ==
    \A t \in Threads :
        (/\ pc[t] = "c_end"
         /\ cyc[t].action \in {"BUY", "SELL", "NONE"}
         /\ cyc[t].confidence < cyc[t].min_conf)
        => signalFile = cyc[t].pre.signalFile

\* C3: a cycle that finds last_trade_time > 0 and less than cooldown seconds
\* elapsed runs no pipeline stage and leaves last_trade_time alone.
C3_CooldownSkips ==
    \A t \in Threads :
        (pc[t] \in CyclePcs /\ cyc[t].current_time > 0 /\ SawCooldown(cyc[t])) =>
            /\ pc[t] = "c_end"
            /\ Range(cyc[t].calls) \cap PipelineCalls = {}
            /\ cyc[t].assigned = -1

\* C3 witness: a cycle ended in its cooldown, five seconds after an emission.
C3_Witness ==
    \E t \in Threads :
        /\ pc[t] = "c_end"
        /\ ~SawPaused(cyc[t])
        /\ SawCooldown(cyc[t])
        /\ cyc[t].current_time - cyc[t].seen.last_trade_time = 5

\* C4: a cycle in which total_trades >= max_daily_trades returns before
\* read_market_data; no pipeline stage runs.
C4_DailyCapSkips ==
    \A t \in Threads :
        (pc[t] \in CyclePcs /\ SawCap(cyc[t])) =>
            /\ pc[t] = "c_end"
            /\ Range(cyc[t].calls) \cap PipelineCalls = {}
            /\ cyc[t].assigned = -1

\* C4 witness: total_trades = 20 with max_daily_trades = 20, pause and
\* cooldown clear.
C4_Witness ==
    \E t \in Threads :
        /\ pc[t] = "c_end"
        /\ cyc[t].total_trades = 20
        /\ cyc[t].seen.CONFIG.max_daily_trades = 20
        /\ ~SawPaused(cyc[t])
        /\ ~SawCooldown(cyc[t])

CycleStateNow ==
    [last_trade_time |-> last_trade_time, consecutive_losses |-> consecutive_losses,
     paused_until |-> paused_until, cycle_count |-> cycle_count]
CycleStateBefore(c) ==
    [last_trade_time |-> c.pre.last_trade_time,
     consecutive_losses |-> c.pre.consecutive_losses,
     paused_until |-> c.pre.paused_until, cycle_count |-> c.pre.cycle_count]

C6_TradeTimeOnlyOnConfirmedEmission ==
    \A t \in Threads : cyc[t].assigned # -1 => cyc[t].exists = "yes"

\* C7: the steps of a start_bot call made while a loop is running change
\* neither CONFIG, CycleState nor signal.json, and do not lead into the loop.
C7_StartWhileRunningIsNoOp ==
    [][\A t \in Threads :
         (run[t].late /\ pc[t] \in StartPcs /\ pc'[t] # pc[t]) =>
            /\ CONFIG' = CONFIG
            /\ cycle_count' = cycle_count
            /\ paused_until' = paused_until
            /\ consecutive_losses' = consecutive_losses
            /\ signalFile' = signalFile
            /\ pc'[t] # "loop"]_vars

\* C8: at most one scheduler loop is active, so no two executions of
\* run_cycle overlap.
C8_SingleLoop ==
    Cardinality({t \in Threads : pc[t] \in LoopPcs}) <= 1

\* C9: when the first cycle of a run begins, CycleState is fresh.
C9_FreshCycleState ==
    \A t \in Threads :
        (pc[t] = "c_begin" /\ ~run[t].cycled) =>
            /\ last_trade_time = 0
            /\ consecutive_losses = 0
            /\ paused_until = 0
            /\ cycle_count = 0

\* C10: from the moment the loop of a run is entered until the first call of
\* evaluate_signal in that run, signal.json does not exist.
C10_NoArtifactBeforeFirstEvaluation ==
    \A t \in Threads :
        (pc[t] \in LoopPcs /\ ~run[t].evaluated) => signalFile = NoSignalFile

\* C11: while RUNNING is False (stop_bot has set it and no start_bot has set
\* it back), the heartbeat of a loop does not put running=true into
\* bot_status.json: the writes after stop_bot carry running=false.
C11_NoHeartbeatAfterStop ==
    [][\A t \in Threads :
          (pc[t] = "hb_dump" /\ ~RUNNING) => statusFile' # StatusJson(TRUE)]_vars

\* C12: a loop that stop_bot stopped (and that no later start_bot set going
\* again) ends with the shutdown sequence of lines 376-379, so once its
\* thread has finished signal.json is the STOP sentinel.
C12_StoppedLoopLeavesSentinel ==
    \A t \in Threads :
        (run[t].halt # "no" /\ pc[t] \in {"done", "crashed"}) =>
            signalFile = StopSignal

\* C13: whenever a call of start_bot has ended, by return or by exception,
\* and no call of it is in progress, signal.json holds no BUY or SELL.
C13_StoppedHasNoTradeSignal ==
    ( /\ \E t \in Threads : pc[t] \in {"done", "crashed"}
      /\ \A t \in Threads : pc[t] \in RestPcs \cup {"off"} )
    => signalFile.action \notin {"BUY", "SELL"}

\* C14: whatever moment bot_status.json is read at, it is missing (before the
\* first write) or holds one complete JSON value: never no bytes and never
\* bytes that do not parse.
C14_StatusAlwaysComplete ==
    statusFile.content \in {"absent", "json"}

\* C15: stop_bot has no step that waits for a controller thread, and a loop
\* that was running when stop_bot set RUNNING to False begins at most one
\* more cycle (as long as no start_bot sets RUNNING back to True).
C15_AtMostOneCycleAfterStop ==
    /\ \A t \in Threads : run[t].halt # "more"
    /\ (stopPc = "idle" /\ imported) => ENABLED StopCall
    /\ stopPc = "status" => ENABLED StopStatus
    /\ stopPc = "dump" => ENABLED StopDump

\* C15 witness: a loop began one cycle after stop_bot, then left through the
\* loop test and returned.
C15_Witness ==
    \E t \in Threads : run[t].halt = "extra" /\ pc[t] = "done"

\* The ways a cycle ends on an exception of a pipeline stage.
StageErrors ==
    {"read_raised", "context_raised", "select_raised", "evaluate_raised"}

C17_StopIdempotent ==
    [][stopPc' # stopPc =>
          /\ UNCHANGED <<CONFIG, last_trade_time, consecutive_losses,
                         paused_until, cycle_count, configFile, signalFile>>
          /\ RUNNING' = (IF stopPc = "idle" THEN FALSE ELSE RUNNING)
          /\ stopPc = "dump" =>
                (statusFile' = StatusJson(FALSE) \/ statusFile' = statusFile)]_vars

\* C17 witness: no start_bot was ever called, one stop_bot has returned
\* (the file holds its running=false) and a second one has set the flag.
C17_Witness ==
    /\ stopPc = "status"
    /\ ~RUNNING
    /\ statusFile = StatusJson(FALSE)
    /\ \A t \in Threads : pc[t] \in {"idle", "off"}

\* C18: right after load_config() in start_bot, CONFIG is the full default
\* record (35, 5, 50) when bot_config.json is absent or unparsable; and a
\* cycle that read a parsed config without a key decided as the default of
\* that key says: cooldown 5, max_daily_trades 50, min_confidence 35.
C18_ConfigDefaults ==
    \A t \in Threads :
        /\ (pc[t] = "s_run" /\ configFile.state # "json") =>
              CONFIG = [min_confidence |-> 35, cooldown |-> 5,
                        max_daily_trades |-> 50]
        /\ pc[t] = "c_end" =>
              LET c == cyc[t]
                  cfg == c.seen.CONFIG
              IN  /\ (cfg.cooldown = NoKey /\ c.current_time > 0 /\ ~SawPaused(c)) =>
                        (c.outcome = "cooldown" <=>
                            /\ c.seen.last_trade_time > 0
                            /\ c.current_time - c.seen.last_trade_time < 5)
                  /\ (cfg.max_daily_trades = NoKey /\ c.total_trades >= 0) =>
                        (c.outcome = "cap" <=> c.total_trades >= 50)
                  /\ (cfg.min_confidence = NoKey /\ c.action = "BUY") =>
                        /\ c.min_conf = 35
                        /\ c.outcome = "emitted" <=> c.confidence >= 35

\* C18 witness: with no bot_config.json a cycle ran to the emission on a
\* signal whose confidence is the default threshold.
C18_Witness ==
    \E t \in Threads :
        /\ configFile.state = "absent"
        /\ pc[t] = "c_end"
        /\ cyc[t].outcome = "emitted"
        /\ cyc[t].confidence = 35

\* C19: in a process whose required imports failed, no call of start_bot is
\* ever in progress, no cycle has begun, RUNNING is False and
\* bot_status.json never holds running=true.
C19_ImportFailureAbortsBeforeLoop ==
    ~imported =>
        /\ \A t \in Threads : pc[t] \in {"idle", "off"} /\ cyc[t] = FreshCycle
        /\ cycle_count = 0
        /\ ~RUNNING
        /\ statusFile = NoStatusFile

\* C19 witness: the imports failed and time has gone by.
C19_Witness ==
    ~imported /\ now = 1 + loop_interval

\* C20: a thread that is writing the heartbeat of line 363 while RUNNING is
\* True stays in the loop, whether write_bot_status raises or not.
C20_HeartbeatFailureKeepsLoop ==
    [][\A t \in Threads :
          (pc[t] \in {"hb", "hb_dump"} /\ RUNNING /\ RUNNING') =>
              pc'[t] \in LoopPcs]_vars

\* C21: no exception of a collaborator leaves start_bot: a cycle in which
\* get_overall_stats or get_ml_status raised ends like any other and the loop
\* sleeps, and the get_ml_status() call of the startup (lines 337-342) never
\* ends start_bot with an exception.
C21_CollaboratorExceptionsContained ==
    [][\A t \in Threads :
          pc'[t] # pc[t] =>
            /\ pc[t] = "c_guard" => pc'[t] \in CyclePcs
            /\ (pc[t] = "c_end" /\ cyc[t].outcome = "exception") => pc'[t] = "sleep"
            /\ pc[t] = "s_reset" => pc'[t] # "crashed"]_vars

\* C22: whatever way the write_bot_status of stop_bot and the heartbeat write
\* of a loop thread interleave, when the heartbeat write ends bot_status.json
\* holds one complete value: never bytes of both writes.
C22_ConcurrentWritesWellFormed ==
    [][\A t \in Threads :
          (pc[t] = "hb_dump" /\ pc'[t] = "c_begin") =>
              statusFile'.content = "json"]_vars

\* C23: whenever a call of start_bot has ended, by return or by exception,
\* no call of it is in progress and no stop_bot is in progress,
\* bot_status.json does not hold running=true.
C23_TerminatedStatusNotRunning ==
    ( /\ \E t \in Threads : pc[t] \in {"done", "crashed"}
      /\ \A t \in Threads : pc[t] \in RestPcs \cup {"off"}
      /\ stopPc = "idle" )
    => statusFile # StatusJson(TRUE)

\* C24: a cycle in flight while RUNNING is False is not cut short: each of
\* its steps leads to the next step of the cycle or to its ordinary end,
\* evaluate_signal's result is gated as in any cycle, and the emission step
\* still assigns last_trade_time = current_time.
C24_NoMidCycleCancellation ==
    [][\A t \in Threads :
          (pc[t] \in CyclePcs \ {"c_end"} /\ ~RUNNING /\ pc'[t] # pc[t]) =>
             LET c == cyc'[t]
             IN  /\ pc'[t] \in CyclePcs
                 /\ pc'[t] = "c_end" => c.outcome # "cancelled"
                 /\ pc[t] = "c_eval" =>
                       (pc'[t] = "c_emit" <=>
                           /\ c.action \in {"BUY", "SELL"}
                           /\ c.confidence >= c.min_conf)
                 /\ pc[t] = "c_emit" =>
                       /\ c.outcome = "emitted"
                       /\ last_trade_time' = cyc[t].current_time]_vars

\* C24 witness: stop_bot was called and has written running=false while a
\* cycle was in flight, and that cycle went on to emit.
C24_Witness ==
    \E t \in Threads :
        /\ pc[t] = "c_end"
        /\ run[t].halt = "stopped"
        /\ ~RUNNING
        /\ statusFile = StatusJson(FALSE)
        /\ cyc[t].outcome = "emitted"
        /\ cyc[t].current_time > cyc[t].pre.last_trade_time
        /\ last_trade_time = cyc[t].current_time
        /\ signalFile = PersistedSignal([action |-> "BUY", confidence |-> 75])

\* C25: the first step of a cycle always leads to the interlocks, whatever
\* ml_auto_adjust and process_feedback return or raise; when ml_auto_adjust
\* raised, CONFIG is unchanged and the cycle goes on from the state it would
\* have after a return of False.
C25_AdjustAndFeedbackErrorsSwallowed ==
    [][\A t \in Threads :
          (pc[t] = "c_begin" /\ pc'[t] # pc[t]) =>
             LET c == cyc'[t]
                 afterFalse ==
                   [FreshCycle EXCEPT
                      !.pre = [last_trade_time |-> last_trade_time,
                               consecutive_losses |-> consecutive_losses,
                               paused_until |-> paused_until,
                               cycle_count |-> cycle_count,
                               signalFile |-> signalFile, CONFIG |-> CONFIG],
                      !.adjust = "false",
                      !.calls = <<"ml_auto_adjust", "process_feedback">>]
             IN  /\ pc'[t] = "c_guard"
                 /\ c.outcome = "none"
                 /\ c.calls[Len(c.calls)] = "process_feedback"
                 /\ c.adjust = "raise" =>
                       /\ CONFIG' = CONFIG
                       /\ [c EXCEPT !.adjust = "false"] = afterFalse
                       /\ <<last_trade_time, consecutive_losses, paused_until>>' =
                             <<last_trade_time, consecutive_losses, paused_until>>
                       /\ cycle_count' = cycle_count + 1]_vars

\* C25 witness: ml_auto_adjust raised in a cycle that went on through the
\* interlocks and the pipeline to an emission, under the Config it began with.
C25_Witness ==
    \E t \in Threads :
        /\ pc[t] = "c_end"
        /\ cyc[t].adjust = "raise"
        /\ cyc[t].outcome = "emitted"
        /\ cyc[t].seen.CONFIG = cyc[t].pre.CONFIG
        /\ CONFIG = cyc[t].pre.CONFIG

\* C26: a cycle in which read_market_data, analyze_market_context,
\* select_setup or evaluate_signal raised called no stage after the one that
\* raised, assigned nothing to last_trade_time, and returned: its thread
\* goes to sleep and, once awake with RUNNING still True, begins a new cycle.
C26_StageErrorAbortsOnlyThatCycle ==
    \A t \in Threads :
        (pc[t] = "c_end" /\ cyc[t].outcome \in StageErrors) =>
            LET c == cyc[t]
                last == c.calls[Len(c.calls)]
                raised == CASE c.outcome = "read_raised" -> "read_market_data"
                            [] c.outcome = "context_raised" -> "analyze_market_context"
                            [] c.outcome = "select_raised" -> "select_setup"
                            [] OTHER -> "evaluate_signal"
            IN  /\ last = raised
                /\ c.assigned = -1
                /\ last_trade_time = c.pre.last_trade_time
                /\ ENABLED (Return(t) /\ pc'[t] = "sleep" /\ cyc'[t] = FreshCycle)

\* C26 witness: a cycle that began with an emission behind it ended on an
\* exception of select_setup, and last_trade_time is still that emission's.
C26_Witness ==
    \E t \in Threads :
        /\ pc[t] = "c_end"
        /\ cyc[t].outcome = "select_raised"
        /\ cyc[t].pre.last_trade_time > 0
        /\ last_trade_time = cyc[t].pre.last_trade_time
        /\ cyc[t].current_time > last_trade_time

\* C27: CONFIG is assigned by start_bot when a run begins and, after that,
\* only by the first step of a cycle whose ml_auto_adjust returned True,
\* which loads bot_config.json; a cycle whose ml_auto_adjust returned
\* False or raised, or that has no ML system, leaves it as it was; and the
\* interlocks and the confidence gate of a cycle read CONFIG as it then is,
\* reloaded or not.
C27_ConfigChangesOnlyOnAdjust ==
    [][/\ CONFIG' # CONFIG =>
             \E t \in Threads :
                \/ pc[t] \in RestPcs /\ pc'[t] = "s_run"
                \/ /\ pc[t] = "c_begin"
                   /\ cyc'[t].adjust = "true"
       /\ \A t \in Threads :
             pc'[t] # pc[t] =>
                /\ pc[t] = "c_begin" =>
                      /\ cyc'[t].adjust = "na" <=> ~ML_AVAILABLE
                      /\ cyc'[t].adjust = "true" => CONFIG' = load_config(configFile')
                      /\ cyc'[t].adjust # "true" => CONFIG' = CONFIG
                /\ pc[t] = "c_guard" =>
                      /\ cyc'[t].seen.CONFIG = CONFIG
                      /\ cyc[t].adjust = "true" => CONFIG = load_config(configFile)
                /\ pc[t] = "c_eval" =>
                      cyc'[t].min_conf = Get(CONFIG.min_confidence, DefaultMinConfidence)]_vars

\* C27 witness: a cycle reloaded a Config with a higher min_confidence and
\* rejected at the gate a signal that the Config it began with would have let
\* through.
C27_Witness ==
    \E t \in Threads :
        /\ pc[t] = "c_end"
        /\ cyc[t].adjust = "true"
        /\ cyc[t].outcome = "rejected"
        /\ cyc[t].confidence >= Get(cyc[t].pre.CONFIG.min_confidence, DefaultMinConfidence)
        /\ cyc[t].confidence < cyc[t].min_conf
        /\ cyc[t].seen.CONFIG = CONFIG
        /\ CONFIG # cyc[t].pre.CONFIG

\* Position of the first call of a collaborator in a cycle's calls, 0 when
\* the cycle has not called it.
FirstCall(c, name) ==
    IF name \in Range(c.calls)
    THEN CHOOSE i \in DOMAIN c.calls :
            /\ c.calls[i] = name
            /\ \A j \in DOMAIN c.calls : c.calls[j] = name => i <= j
    ELSE 0

\* C28: the interlocks are decided in the order pause, cooldown, daily cap,
\* the first that blocks ending the cycle: a cycle that called
\* get_overall_stats was neither paused nor in cooldown, a cycle that called
\* a pipeline stage had asked the stats before and was under the cap, and a
\* cycle ended by an interlock was ended by the first one that blocked.
C28_InterlocksInOrder ==
    \A t \in Threads :
        pc[t] \in CyclePcs =>
            LET c == cyc[t]
                stats == FirstCall(c, "get_overall_stats")
            IN  /\ stats > 0 => (~SawPaused(c) /\ ~SawCooldown(c))
                /\ Range(c.calls) \cap PipelineCalls # {} =>
                      /\ stats > 0
                      /\ stats < FirstCall(c, "read_market_data")
                      /\ c.total_trades >= 0
                      /\ ~SawCap(c)
                /\ pc[t] \in {"c_pipe", "c_eval", "c_emit"} =>
                      (stats > 0 /\ ~SawCap(c))
                /\ (pc[t] = "c_end" /\ SawPaused(c)) => c.outcome = "paused"
                /\ (pc[t] = "c_end" /\ ~SawPaused(c) /\ SawCooldown(c)) =>
                      c.outcome = "cooldown"
                /\ (pc[t] = "c_end" /\ SawCap(c)) => c.outcome = "cap"
                /\ c.outcome \in {"paused", "cooldown"} => c.total_trades = -1

\* C28 witness: a cycle passed the pause check with a pause window behind it
\* and ended in its cooldown, without asking the stats.
C28_Witness ==
    \E t \in Threads :
        /\ pc[t] = "c_end"
        /\ cyc[t].outcome = "cooldown"
        /\ cyc[t].seen.paused_until > 0
        /\ ~SawPaused(cyc[t])
        /\ SawCooldown(cyc[t])
        /\ "get_overall_stats" \notin Range(cyc[t].calls)

\* The pipeline stages a cycle has called, in the order it called them.
StagesCalled(c) == SelectSeq(c.calls, LAMBDA name : name \in PipelineCalls)
StageOrder ==
    <<"read_market_data", "analyze_market_context", "select_setup", "evaluate_signal">>

\* C29: the stages of a cycle are called in the order read_market_data,
\* analyze_market_context, select_setup, evaluate_signal, each one only after
\* every earlier one returned something non-empty: no analysis of empty
\* market data, no strategy selection or evaluation on an empty context, no
\* evaluation without a strategy; and a cycle that ended on an empty result
\* returns to the loop.
C29_StagesInOrderOnNonEmpty ==
    \A t \in Threads :
        pc[t] \in CyclePcs =>
            LET c == cyc[t]
                stages == StagesCalled(c)
            IN  /\ Len(stages) <= Len(StageOrder)
                /\ stages = SubSeq(StageOrder, 1, Len(stages))
                /\ c.outcome = "no_data" => Len(stages) = 1
                /\ c.outcome = "no_setup" => Len(stages) = 3
                /\ Len(stages) = 4 => c.setup = "ok"
                /\ pc[t] = "c_eval" => (c.setup = "ok" /\ c.context # "empty")
                /\ (pc[t] = "c_end" /\ c.outcome \in {"no_data", "no_setup", "no_signal"})
                      => ENABLED (Return(t) /\ pc'[t] = "sleep")

\* C30: paused_until and consecutive_losses are 0 in every state the
\* controller and its loop reach, no step changes either, and no cycle is
\* ended by the pause check.
C30_PauseNeverSet ==
    /\ paused_until = 0
    /\ consecutive_losses = 0
    /\ \A t \in Threads :
          /\ cyc[t].pre.paused_until = 0
          /\ cyc[t].seen.paused_until = 0
          /\ cyc[t].outcome # "paused"
          /\ ~SawPaused(cyc[t])

\* C30 witness: a loop is past its first cycle and a cycle that went
\* through the pause check has ended on an exception caught by the loop,
\* with both fields still 0.
C30_Witness ==
    \E t \in Threads :
        /\ pc[t] = "c_end"
        /\ cyc[t].current_time > 0
        /\ cyc[t].pre.cycle_count >= 1
        /\ cyc[t].outcome = "exception"
        /\ paused_until = 0
        /\ consecutive_losses = 0

\* C31: a cycle begins only from the heartbeat of its own loop iteration:
\* the step into run_cycle is the one that ends write_bot_status(True),
\* and it puts the bytes of running=true into bot_status.json (the complete
\* value when nobody else wrote the file since this write opened it); the
\* heartbeat itself is entered only from a loop test that read RUNNING True.
C31_HeartbeatBeforeEachCycle ==
    [][\A t \in Threads :
          pc'[t] # pc[t] =>
             /\ pc'[t] = "c_begin" =>
                   /\ pc[t] = "hb_dump"
                   /\ statusFile' \in {StatusJson(TRUE), GarbledStatus}
                   /\ statusFile = EmptyStatus => statusFile' = StatusJson(TRUE)
             /\ pc'[t] = "hb_dump" => pc[t] = "hb"
             /\ pc'[t] = "hb" => (pc[t] = "loop" /\ RUNNING)]_vars

\* C31 witness: a cycle is about to begin in an iteration that is not the
\* first of its loop, right after a complete running=true was written.
C31_Witness ==
    \E t \in Threads :
        /\ pc[t] = "c_begin"
        /\ run[t].cycled
        /\ cycle_count >= 1
        /\ last_trade_time > 0
        /\ statusFile = StatusJson(TRUE)

\* C32: start_bot loads the Config, resets CycleState, writes running=true,
\* deletes signal.json and enters the loop, in that order: once a start_bot
\* has written running=true and until it enters its loop, paused_until,
\* consecutive_losses and cycle_count are 0.
C32_StatusAfterReset ==
    \A t \in Threads :
        (pc[t] \in {"s_reset", "s_clear"} /\ statusFile = StatusJson(TRUE)) =>
            /\ paused_until = 0
            /\ consecutive_losses = 0
            /\ cycle_count = 0

\* C33: a cycle at its emission step has a timestamp at least the cooldown
\* of CONFIG after the emission recorded in last_trade_time, the latest
\* one before it.
C33_EmissionsCooldownApart ==
    \A t \in Threads :
        (pc[t] = "c_emit" /\ last_trade_time > 0) =>
            cyc[t].current_time - last_trade_time >=
                Get(CONFIG.cooldown, DefaultCooldown)

\* C34: when no call of start_bot is in progress (none was made yet, or
\* each one made has returned or ended on an exception), RUNNING is False.
C34_RunningOnlyWithLoop ==
    (\A t \in Threads : pc[t] \in RestPcs \cup {"off"}) => ~RUNNING

\* C35: once TradingBotGUI.stop_bot has returned, and until the dashboard
\* asks for a start again, no loop test of a controller thread reads
\* RUNNING as True and no heartbeat puts running=true into bot_status.json:
\* the thread is on its way out, whenever the stop came after its spawn.
C35_GuiStopTakesEffect ==
    [][(gui.bot_state = "STOPPED" /\ gui.call = "none" /\ gui.after = 0) =>
          \A t \in Threads :
             /\ ~(pc[t] = "loop" /\ pc'[t] = "hb")
             /\ ~(pc[t] = "s_dump" /\ statusFile' = StatusJson(TRUE))]_vars

\* C36: at most one controller thread spawned by the dashboard is alive,
\* whatever the order of its start_bot, stop_bot and restart_bot calls and
\* of its timers, and a thread that is alive is the one running_thread names.
C36_OneControllerThread ==
    /\ Cardinality({t \in Threads : Alive(t)}) <= 1
    /\ \A t \in Threads : Alive(t) => gui.running_thread = t

\* C36 witness: the dashboard has spawned a second thread after the first
\* one returned, and that second thread is in its loop.
C36_Witness ==
    \E t, u \in Threads :
        /\ t # u
        /\ pc[t] = "done"
        /\ Alive(u)
        /\ pc[u] \in LoopPcs
        /\ gui.running_thread = u
        /\ gui.bot_state = "RUNNING"

\* C37: when the start_bot deferred by restart_bot fires while the thread
\* that was stopped is still in its sleep between two cycles, a controller
\* is started again: afterwards a thread is entering main.start_bot, or a
\* thread is alive with RUNNING True.
C37_RestartStartsAgain ==
    [][(/\ gui.call = "none"
        /\ gui.after > 0
        /\ gui'.after < gui.after
        /\ \E t \in Threads : pc[t] = "sleep") =>
          \E t \in Threads :
             \/ pc'[t] = "s_run"
             \/ Alive(t) /\ RUNNING']_vars
====
